---------------------------- MODULE Spec2Model ----------------------------
(***************************************************************************)
(* A model of the HMM attack-phase labeler (scripts/hmm): the session      *)
(* builder, the AttackPhaseHMM object and the train / label / evaluate     *)
(* commands.  Each component has its own specification; the variables of   *)
(* the other components stay at their idle values.                         *)
(***************************************************************************)
EXTENDS Integers, Sequences, FiniteSets, TLC

VARIABLES
    \* ---- SessionBuilder (data/session_builder.py)
    gap_ms,        \* self.gap_ms
    min_length,    \* self.min_length
    flows,         \* the DataFrame handed to build_sessions
    sessions,      \* the list build_sessions returned
    sb_pc,         \* "ready" before the call, "done" after it
    \* ---- AttackPhaseHMM (model/hmm.py)
    objs,          \* the AttackPhaseHMM instances, by identity (position)
    files,         \* path -> what joblib.dump stored there (None: no file)
    ret,           \* the last call: what it returned or raised
    hist,          \* per instance: "fresh", "raised" or "ok" (see Fit, Load)
    fhist,         \* per file: hist of the instance it was saved from
    \* ---- AttackPhaseHMM.select_n_states (model/hmm.py)
    min_states,    \* argument min_states
    max_states,    \* argument max_states
    cand,          \* what each candidate k does on the data: a BIC, or Raises
    sel_k,         \* the loop variable k
    best_bic,      \* best_bic
    best_k,        \* best_k
    sel_result,    \* the value returned
    sel_pc,        \* "ready", "loop", "returned"
    \* ---- the commands (cli/train.py, cli/label.py, cli/evaluate.py)
    cli_cmd,       \* the command that ran: "label", "train", "evaluate"
    cli_pc,        \* "ready" before the command, "done" after it
    decoded,       \* what model.predict_states returned, per session
    cli_out,       \* the rows written to output_path (None: nothing written)
    cli_result,    \* what the command returned or raised
    cli_calls,     \* the AttackPhaseHMM methods the command called
    output_path,   \* train_model's argument output_path (None: not train)
    cli_fs,        \* path -> what joblib.dump stored there, for the paths written
    missing,       \* the columns of the schema the input file lacks
    observations,  \* the feature rows and lengths handed to the model (None: none)
    max_session_size, \* train_model's argument max_session_size (0: not train)
    \* ---- StateAnalyzer and MitreMapper (interpretation/)
    labeled_df,    \* the labeled flows handed to StateAnalyzer.analyze
    signatures,    \* the list analyze returned
    an_pc,         \* "ready" before analyze, "done" after it
    sig,           \* the signature handed to MitreMapper.map
    map_result,    \* the (tactic, confidence) map returned
    map_pc,        \* "ready" before map, "done" after it
    \* ---- FlowFeatureExtractor (features/extractor.py)
    scaler,        \* self.scaler: Unfitted, or the parameters of its last fit
    is_fitted,     \* self._is_fitted
    fe_ret         \* the last call: what it returned or raised

sbVars == <<gap_ms, min_length, flows, sessions, sb_pc>>

hmmVars == <<objs, files, ret, hist, fhist>>

selVars == <<min_states, max_states, cand, sel_k, best_bic, best_k, sel_result, sel_pc>>

cliVars == <<cli_cmd, cli_pc, decoded, cli_out, cli_result, cli_calls,
            output_path, cli_fs, missing, observations, max_session_size>>

interpVars == <<labeled_df, signatures, an_pc, sig, map_result, map_pc>>

feVars == <<scaler, is_fitted, fe_ret>>

vars == <<sbVars, hmmVars, selVars, cliVars, interpVars, feVars>>

(***************************************************************************)
(* Bounds of the model.                                                    *)
(***************************************************************************)
MaxFlows == 3      \* rows of an input flow table
MaxTime == 3       \* FLOW_START_MILLISECONDS ranges over 0..MaxTime
MaxGap == 2        \* gap_ms ranges over 0..MaxGap
MaxMinLen == 3     \* min_length ranges over 0..MaxMinLen
MaxObjs == 2       \* AttackPhaseHMM instances alive in one run
MaxK == 3          \* min_states and max_states range over 1..MaxK
MaxCliFlows == 4   \* rows of the flow table a command reads
MaxAnFlows == 3    \* rows of the labeled frame handed to analyze
MaxMissingFlows == 3 \* rows of a flow table that lacks a column
MaxObsFlows == 6   \* rows of a flow table with one flow per millisecond
MaxFeFlows == 3    \* rows of the frame handed to the feature extractor

\* The python None.
None == [kind |-> "None"]

(***************************************************************************)
(* Flow tables.  A row carries the two columns the builder reads and       *)
(* `row`, which stands for the passthrough columns (it tells rows apart).  *)
(* Addrs lists the source addresses in ascending (string) order, the order *)
(* in which groupby yields its groups.                                     *)
(***************************************************************************)
Addrs == <<"10.0.0.1", "10.0.0.2">>

AddrSet == {Addrs[i] : i \in DOMAIN Addrs}

AddrRank(a) == CHOOSE i \in DOMAIN Addrs : Addrs[i] = a

Times == 0..MaxTime

FlowTablesOf(maxRows, times) ==
    UNION {{[i \in 1..n |-> [IPV4_SRC_ADDR |-> c[i][1],
                             FLOW_START_MILLISECONDS |-> c[i][2],
                             row |-> i]] :
                c \in [1..n -> AddrSet \X times]} : n \in 0..maxRows}

FlowTables == FlowTablesOf(MaxFlows, Times)

RowsOf(tbl) == {tbl[i] : i \in DOMAIN tbl}

\* flows.groupby('IPV4_SRC_ADDR'): the keys present, ascending.
GroupKeys(tbl) ==
    LET present == {AddrRank(r.IPV4_SRC_ADDR) : r \in RowsOf(tbl)}
        RECURSIVE Asc(_)
        Asc(S) == IF S = {} THEN <<>>
                  ELSE LET m == CHOOSE x \in S : \A y \in S : x <= y
                       IN <<Addrs[m]>> \o Asc(S \ {m})
    IN Asc(present)

\* The rows of one group.
Group(tbl, src_ip) == {r \in RowsOf(tbl) : r.IPV4_SRC_ADDR = src_ip}

(***************************************************************************)
(* group.sort_values('FLOW_START_MILLISECONDS').reset_index(drop=True):    *)
(* the default sort is not stable, so rows with equal start times may come *)
(* out in any order.  The set of all outcomes.                             *)
(***************************************************************************)
RECURSIVE sort_values(_)
sort_values(S) ==
    IF S = {} THEN {<<>>}
    ELSE LET firsts == {r \in S : \A q \in S :
                            r.FLOW_START_MILLISECONDS <= q.FLOW_START_MILLISECONDS}
         IN UNION {{<<r>> \o rest : rest \in sort_values(S \ {r})} : r \in firsts}

\* The choices of one sorted frame per group.
SortChoices(tbl) ==
    LET keys == {r.IPV4_SRC_ADDR : r \in RowsOf(tbl)}
        all == UNION {sort_values(Group(tbl, k)) : k \in keys}
    IN {f \in [keys -> all] : \A k \in keys : f[k] \in sort_values(Group(tbl, k))}

\* group.iloc[a:b], 0-based and half-open.
Iloc(group, a, b) == SubSeq(group, a + 1, b)

\* times[1:] - times[:-1], indexed from 0 as in numpy.
Gaps(group) ==
    [j \in 0..(Len(group) - 2) |->
        group[j + 2].FLOW_START_MILLISECONDS - group[j + 1].FLOW_START_MILLISECONDS]

\* A plausible slip: splitting at >= instead of >.
split_indices_ge(group) ==
    {j + 1 : j \in {k \in DOMAIN Gaps(group) : Gaps(group)[k] >= gap_ms}}

\* (gaps > self.gap_ms).nonzero()[0] + 1
split_indices(group) ==
    {j + 1 : j \in {k \in DOMAIN Gaps(group) : Gaps(group)[k] > gap_ms}}

MinTime(rows) ==
    CHOOSE t \in {rows[i].FLOW_START_MILLISECONDS : i \in DOMAIN rows} :
        \A i \in DOMAIN rows : t <= rows[i].FLOW_START_MILLISECONDS

\* f"{src_ip}_{start_time}"
FormatSessionId(src_ip, start_time) == src_ip \o "_" \o ToString(start_time)

\* A plausible slip: the length filter off by one.
create_session_le(rows, src_ip) ==
    IF Len(rows) <= min_length THEN None
    ELSE [session_id |-> FormatSessionId(src_ip, MinTime(rows)), rows |-> rows]

\* A plausible slip: the id built from the address alone.
create_session_noTime(rows, src_ip) ==
    IF Len(rows) < min_length THEN None
    ELSE [session_id |-> src_ip, rows |-> rows]

\* SessionBuilder._create_session
create_session(rows, src_ip) ==
    IF Len(rows) < min_length THEN None
    ELSE [session_id |-> FormatSessionId(src_ip, MinTime(rows)), rows |-> rows]

\* The ascending list of a set of indices.
RECURSIVE AscSeq(_)
AscSeq(S) ==
    IF S = {} THEN <<>>
    ELSE LET m == CHOOSE x \in S : \A y \in S : x <= y
         IN <<m>> \o AscSeq(S \ {m})

Keep(session) == IF session = None THEN <<>> ELSE <<session>>

\* The loop over split_indices and the last session after it.
RECURSIVE SplitLoop(_, _, _, _)
SplitLoop(group, src_ip, idxs, start_idx) ==
    IF idxs = <<>>
    THEN Keep(create_session(Iloc(group, start_idx, Len(group)), src_ip))
    ELSE Keep(create_session(Iloc(group, start_idx, Head(idxs)), src_ip))
            \o SplitLoop(group, src_ip, Tail(idxs), Head(idxs))

\* A plausible slip: the gaps computed on the unsorted group.
GroupSessions_unsorted(tbl, src_ip, sorted) ==
    LET group == SelectSeq(tbl, LAMBDA r : r.IPV4_SRC_ADDR = src_ip)
    IN SplitLoop(group, src_ip, AscSeq(split_indices(group)), 0)

\* The body of the loop over the groups, for the sorted frame of one group.
GroupSessions(tbl, src_ip, sorted) ==
    SplitLoop(sorted, src_ip, AscSeq(split_indices(sorted)), 0)

\* SessionBuilder.build_sessions, for one outcome `pick` of the sorts.
RECURSIVE GroupLoop(_, _, _)
GroupLoop(tbl, keys, pick) ==
    IF keys = <<>> THEN <<>>
    ELSE GroupSessions(tbl, Head(keys), pick[Head(keys)])
            \o GroupLoop(tbl, Tail(keys), pick)

build_sessions(tbl, pick) ==
    IF tbl = <<>> THEN <<>>
    ELSE GroupLoop(tbl, GroupKeys(tbl), pick)

(***************************************************************************)
(* AttackPhaseHMM.  An instance is a record of its four attributes; the    *)
(* attribute `model` is None or the GaussianHMM it holds.  An observation  *)
(* set (X, lengths) is one of Data; "bad" is one that hmmlearn rejects     *)
(* with an exception (lengths that do not add up, NaN, ...).               *)
(***************************************************************************)
DEFAULT_N_STATES == 10
N_ITER == 100
RANDOM_STATE == 42

NotFittedMsg == "Model not fitted. Call fit() first."

Paths == {"model.pkl"}

Data == {"bad", "A", "B"}

Malformed(X) == X = "bad"

\* Arguments of the constructor; <<>> is an omitted random_state.
NStatesArgs == {DEFAULT_N_STATES, 2}
RandomStateArgs == {<<>>}

SBIdle ==
    /\ gap_ms = 0
    /\ min_length = 0
    /\ flows = <<>>
    /\ sessions = <<>>
    /\ sb_pc = "idle"

CLIIdle ==
    /\ cli_cmd = "none"
    /\ cli_pc = "idle"
    /\ decoded = <<>>
    /\ cli_out = None
    /\ cli_result = None
    /\ cli_calls = {}
    /\ output_path = None
    /\ cli_fs = <<>>
    /\ missing = {}
    /\ observations = None
    /\ max_session_size = 0

FEIdle ==
    /\ scaler = None
    /\ is_fitted = FALSE
    /\ fe_ret = None

InterpIdle ==
    /\ labeled_df = <<>>
    /\ signatures = <<>>
    /\ an_pc = "idle"
    /\ sig = None
    /\ map_result = None
    /\ map_pc = "idle"

SelIdle ==
    /\ min_states = 0
    /\ max_states = 0
    /\ cand = <<>>
    /\ sel_k = 0
    /\ best_bic = None
    /\ best_k = 0
    /\ sel_result = None
    /\ sel_pc = "idle"

HMMIdle ==
    /\ objs = <<>>
    /\ files = [p \in Paths |-> None]
    /\ ret = None
    /\ hist = <<>>
    /\ fhist = [p \in Paths |-> "fresh"]

\* AttackPhaseHMM.__init__
NewInstance(n_states, n_iter, random_state) ==
    [n_states |-> n_states,
     n_iter |-> n_iter,
     random_state |-> IF random_state # <<>> THEN random_state[1] ELSE RANDOM_STATE,
     model |-> None]

\* hmm.GaussianHMM(n_components=..., covariance_type='diag', n_iter=..., random_state=...)
GaussianHMM(n_components, n_iter, random_state) ==
    [n_components |-> n_components,
     covariance_type |-> "diag",
     n_iter |-> n_iter,
     random_state |-> random_state,
     fitted |-> FALSE,
     params |-> None]

\* What GaussianHMM.fit leaves in the object when it completes: parameters
\* determined by the data, the number of states, the iteration cap and the seed.
Fitted(g, X) ==
    [g EXCEPT !.fitted = TRUE,
              !.params = [data |-> X, k |-> g.n_components,
                          n_iter |-> g.n_iter, seed |-> g.random_state]]

Returned(op, o, v) ==
    [op |-> op, self |-> o, raised |-> "", message |-> "", value |-> v]

Raised(op, o, type, msg) ==
    [op |-> op, self |-> o, raised |-> type, message |-> msg, value |-> None]

\* A call into the GaussianHMM an instance holds (predict, score, transmat_,
\* means_, covars_): the library's own error when that object was never fitted
\* or the observations are malformed.
Delegate(op, o, X) ==
    LET g == objs[o].model IN
    IF g.fitted /\ ~Malformed(X)
    THEN Returned(op, o, [by |-> g.params, X |-> X])
    ELSE Raised(op, o, "LibraryError", "")

\* A plausible slip: a method without the guard.
Unguarded(op, o, X) == Delegate(op, o, X)

\* if self.model is None: raise RuntimeError(...), else the call into the model.
Guarded(op, o, X) ==
    IF objs[o].model = None
    THEN Raised(op, o, "RuntimeError", NotFittedMsg)
    ELSE Delegate(op, o, X)

\* AttackPhaseHMM.predict_states
predict_states(o, X) == Guarded("predict_states", o, X)

\* AttackPhaseHMM.score
score(o, X) == Guarded("score", o, X)

\* AttackPhaseHMM.get_transition_matrix
get_transition_matrix(o) == Guarded("get_transition_matrix", o, "A")

\* AttackPhaseHMM.get_emission_means
get_emission_means(o) == Guarded("get_emission_means", o, "A")

\* AttackPhaseHMM.get_emission_covariances
get_emission_covariances(o) == Guarded("get_emission_covariances", o, "A")

\* A plausible slip: compute_bic without its guard.
compute_bic_unguarded(o, X) ==
    IF objs[o].model = None
    THEN Raised("compute_bic", o, "AttributeError", "")
    ELSE Delegate("compute_bic", o, X)

\* AttackPhaseHMM.compute_bic
compute_bic(o, X) == Guarded("compute_bic", o, X)

\* A plausible slip: fit trains only an instance that holds no model yet and
\* leaves a fitted one as it is.
fit_once(o, X) ==
    LET g == GaussianHMM(objs[o].n_states, objs[o].n_iter, objs[o].random_state)
    IN IF Malformed(X)
       THEN [objs |-> [objs EXCEPT ![o].model = g],
             ret |-> Raised("fit", o, "LibraryError", "")]
       ELSE IF objs[o].model # None /\ objs[o].model.fitted
       THEN [objs |-> objs, ret |-> Returned("fit", o, [instance |-> o])]
       ELSE [objs |-> [objs EXCEPT ![o].model = Fitted(g, X)],
             ret |-> Returned("fit", o, [instance |-> o])]

\* AttackPhaseHMM.fit: self.model is assigned the new GaussianHMM, then that
\* object's fit runs and either completes or raises; fit returns self.
fit(o, X) ==
    LET g == GaussianHMM(objs[o].n_states, objs[o].n_iter, objs[o].random_state)
    IN IF Malformed(X)
       THEN [objs |-> [objs EXCEPT ![o].model = g],
             ret |-> Raised("fit", o, "LibraryError", "")]
       ELSE [objs |-> [objs EXCEPT ![o].model = Fitted(g, X)],
             ret |-> Returned("fit", o, [instance |-> o])]

\* AttackPhaseHMM.save: the dict handed to joblib.dump.
save(o) ==
    [n_states |-> objs[o].n_states,
     n_iter |-> objs[o].n_iter,
     random_state |-> objs[o].random_state,
     model |-> objs[o].model]

\* A plausible slip: load rebuilds the instance and forgets the stored model.
load_noModel(data) ==
    NewInstance(data.n_states, data.n_iter, <<data.random_state>>)

\* AttackPhaseHMM.load: the instance built from the stored dict.
load(data) ==
    [NewInstance(data.n_states, data.n_iter, <<data.random_state>>)
        EXCEPT !.model = data.model]

Instances == DOMAIN objs

Construct ==
    /\ Len(objs) < MaxObjs
    /\ \E n \in NStatesArgs, rs \in RandomStateArgs :
          /\ objs' = Append(objs, NewInstance(n, N_ITER, rs))
          /\ ret' = Returned("__init__", Len(objs) + 1, [instance |-> Len(objs) + 1])
    /\ hist' = Append(hist, "fresh")
    /\ UNCHANGED <<files, fhist>>
    /\ UNCHANGED <<sbVars, selVars, cliVars, interpVars, feVars>>

\* hist records the fits: "ok" once a fit has completed on the instance (or on
\* the one it was saved from), "raised" when fits were called and none completed.
Fit ==
    /\ \E o \in Instances, X \in Data :
          /\ objs' = fit(o, X).objs
          /\ ret' = fit(o, X).ret
          /\ hist' = [i \in DOMAIN objs' |->
                        IF i \notin DOMAIN hist THEN "ok"
                        ELSE IF i # o THEN hist[i]
                        ELSE IF ~Malformed(X) THEN "ok"
                        ELSE IF hist[o] = "ok" THEN "ok" ELSE "raised"]
    /\ Len(objs') <= MaxObjs
    /\ UNCHANGED <<files, fhist>>
    /\ UNCHANGED <<sbVars, selVars, cliVars, interpVars, feVars>>

PredictStates ==
    /\ \E o \in Instances, X \in Data : ret' = predict_states(o, X)
    /\ UNCHANGED <<objs, files, hist, fhist>>
    /\ UNCHANGED <<sbVars, selVars, cliVars, interpVars, feVars>>

Score ==
    /\ \E o \in Instances, X \in Data : ret' = score(o, X)
    /\ UNCHANGED <<objs, files, hist, fhist>>
    /\ UNCHANGED <<sbVars, selVars, cliVars, interpVars, feVars>>

GetTransitionMatrix ==
    /\ \E o \in Instances : ret' = get_transition_matrix(o)
    /\ UNCHANGED <<objs, files, hist, fhist>>
    /\ UNCHANGED <<sbVars, selVars, cliVars, interpVars, feVars>>

GetEmissionMeans ==
    /\ \E o \in Instances : ret' = get_emission_means(o)
    /\ UNCHANGED <<objs, files, hist, fhist>>
    /\ UNCHANGED <<sbVars, selVars, cliVars, interpVars, feVars>>

GetEmissionCovariances ==
    /\ \E o \in Instances : ret' = get_emission_covariances(o)
    /\ UNCHANGED <<objs, files, hist, fhist>>
    /\ UNCHANGED <<sbVars, selVars, cliVars, interpVars, feVars>>

ComputeBic ==
    /\ \E o \in Instances, X \in Data : ret' = compute_bic(o, X)
    /\ UNCHANGED <<objs, files, hist, fhist>>
    /\ UNCHANGED <<sbVars, selVars, cliVars, interpVars, feVars>>

Save ==
    /\ \E o \in Instances, p \in Paths :
          /\ files' = [files EXCEPT ![p] = save(o)]
          /\ fhist' = [fhist EXCEPT ![p] = hist[o]]
          /\ ret' = Returned("save", o, None)
    /\ UNCHANGED <<objs, hist>>
    /\ UNCHANGED <<sbVars, selVars, cliVars, interpVars, feVars>>

Load ==
    /\ Len(objs) < MaxObjs
    /\ \E p \in Paths :
          /\ files[p] # None
          /\ objs' = Append(objs, load(files[p]))
          /\ hist' = Append(hist, fhist[p])
          /\ ret' = Returned("load", Len(objs) + 1, [instance |-> Len(objs) + 1])
    /\ UNCHANGED <<files, fhist>>
    /\ UNCHANGED <<sbVars, selVars, cliVars, interpVars, feVars>>

InitHMM ==
    /\ FEIdle
    /\ InterpIdle
    /\ SBIdle
    /\ CLIIdle
    /\ SelIdle
    /\ HMMIdle

NextHMM ==
    \/ Construct
    \/ Fit
    \/ PredictStates
    \/ Score
    \/ GetTransitionMatrix
    \/ GetEmissionMeans
    \/ GetEmissionCovariances
    \/ ComputeBic
    \/ Save
    \/ Load

SpecHMM == InitHMM /\ [][NextHMM]_vars

(***************************************************************************)
(* Properties of AttackPhaseHMM.                                           *)
(***************************************************************************)
GuardedOps ==
    {"predict_states", "score", "get_transition_matrix", "get_emission_means",
     "get_emission_covariances", "compute_bic"}

NotFittedError(r) == r.raised = "RuntimeError" /\ r.message = NotFittedMsg

\* C7: on an instance that has never been trained (no fit was ever called on
\* it, nor on the instance it was saved from), each of predict_states, score,
\* get_transition_matrix, get_emission_means, get_emission_covariances and
\* compute_bic fails with RuntimeError "Model not fitted. Call fit() first."
\* and leaves the instance untrained.
C7_UntrainedFails ==
    (ret # None /\ ret.op \in GuardedOps /\ hist[ret.self] = "fresh") =>
        /\ NotFittedError(ret)
        /\ objs[ret.self].model = None

\* compute_bic was refused on an instance loaded from a file that was saved
\* before any training, next to an instance that was trained after the save.
C7_Witness ==
    /\ ret # None
    /\ ret.op = "compute_bic"
    /\ NotFittedError(ret)
    /\ Len(objs) = 2
    /\ ret.self = 2
    /\ hist[2] = "fresh"
    /\ hist[1] = "ok"

\* C8: predict_states and score pass the fitted-state guard only if a fit has
\* completed on the instance or on the one it was saved from; after a fit that
\* raised on an untrained instance the instance is still untrained; an
\* instance loaded from a file saved while untrained is untrained.
C8_GuardOnlyAfterFit ==
    /\ (ret # None /\ ret.op \in {"predict_states", "score"} /\ ~NotFittedError(ret))
          => hist[ret.self] = "ok"
    /\ \A o \in Instances : hist[o] \in {"raised", "fresh"} => objs[o].model = None

\* A completed fit of instance o on X, as a step.
FitCompletes(o, X) ==
    /\ ~Malformed(X)
    /\ objs' = fit(o, X).objs
    /\ ret' = fit(o, X).ret

IsFitted(o) == objs[o].model # None /\ objs[o].model.fitted

\* C9 as stated: fitting a fitted instance again yields a new instance and
\* leaves the fitted instance, and the parameters it exposes, unchanged.
C9_RefitNewInstance ==
    [][\A o \in Instances : \A X \in Data :
          (IsFitted(o) /\ FitCompletes(o, X)) =>
              /\ ret'.value.instance # o
              /\ objs'[o] = objs[o]]_vars

\* C9 as amended: fitting a fitted instance again returns the same instance;
\* it keeps n_states, n_iter and random_state, exposes the parameters of the
\* new fit, and no other instance and no saved file changes.
C9_RefitInPlace ==
    [][\A o \in Instances : \A X \in Data :
          (IsFitted(o) /\ FitCompletes(o, X)) =>
              /\ ret'.value.instance = o
              /\ DOMAIN objs' = DOMAIN objs
              /\ objs'[o].n_states = objs[o].n_states
              /\ objs'[o].n_iter = objs[o].n_iter
              /\ objs'[o].random_state = objs[o].random_state
              /\ objs'[o].model.fitted
              /\ objs'[o].model.params.data = X
              /\ \A q \in Instances : q # o => objs'[q] = objs[q]
              /\ files' = files]_vars

\* The only instance was trained on "A", saved, and then trained again on "B".
C9_Witness ==
    /\ Len(objs) = 1
    /\ files["model.pkl"] # None
    /\ files["model.pkl"].model # None
    /\ files["model.pkl"].model.fitted
    /\ files["model.pkl"].model.params.data = "A"
    /\ ret.op = "fit"
    /\ ret.raised = ""
    /\ objs[1].model.params.data = "B"

\* Two calls had the same outcome: the same value returned or error raised.
SameOutcome(a, b) ==
    /\ a.raised = b.raised
    /\ a.message = b.message
    /\ a.value = b.value

\* C13: an instance loaded from the file an instance was saved to has the
\* same n_states, n_iter, random_state and trained parameters as the saved
\* one, and predict_states and score on the same observations give the same
\* results for both.
C13_SaveLoadRoundTrip ==
    [][\A p \in Paths : \A o \in Instances :
          (ret'.op = "load" /\ files[p] # None /\ files[p] = save(o)) =>
              \A n \in {Len(objs) + 1} :
              /\ ret'.value.instance = n
              /\ DOMAIN objs' = 1..n
              /\ objs'[n].n_states = objs[o].n_states
              /\ objs'[n].n_iter = objs[o].n_iter
              /\ objs'[n].random_state = objs[o].random_state
              /\ objs'[n].model = objs[o].model
              /\ objs'[o] = objs[o]
              /\ \A X \in Data :
                    /\ SameOutcome(predict_states(n, X)', predict_states(o, X)')
                    /\ SameOutcome(score(n, X)', score(o, X)')]_vars

\* A fitted instance was saved and the file loaded: both instances decode "B"
\* to the same labels.
C13_Witness ==
    /\ ret # None
    /\ ret.op = "load"
    /\ Len(objs) = 2
    /\ IsFitted(1)
    /\ \E p \in Paths : files[p] = save(1)
    /\ objs[2].model = objs[1].model
    /\ predict_states(2, "B").raised = ""
    /\ SameOutcome(predict_states(2, "B"), predict_states(1, "B"))


(***************************************************************************)
(* AttackPhaseHMM.select_n_states.  The fit and the BIC of a candidate are *)
(* determined by the data, the candidate k and the seed: cand[k] is the    *)
(* BIC compute_bic returns (a float: a number, nan, inf or -inf), or       *)
(* Raises when model.fit or compute_bic raises for that k.                 *)
(***************************************************************************)
Raises == [kind |-> "raises"]
NaN == [kind |-> "nan"]
Inf == [kind |-> "inf"]
NegInf == [kind |-> "-inf"]
Num(n) == [kind |-> "num", v |-> n]

BicValues == {Num(n) : n \in -1..1} \cup {NaN, Inf, NegInf}

\* A plausible slip: bic <= best_bic, which lets a later K take a tie.
FloatLessEq(a, b) ==
    CASE a = NaN \/ b = NaN -> FALSE
      [] a = b -> TRUE
      [] a = Inf \/ b = NegInf -> FALSE
      [] a = NegInf \/ b = Inf -> TRUE
      [] OTHER -> a.v <= b.v

\* a < b on floats: false when either is nan.
FloatLess(a, b) ==
    CASE a = NaN \/ b = NaN -> FALSE
      [] a = Inf \/ b = NegInf -> FALSE
      [] a = NegInf \/ b = Inf -> TRUE
      [] OTHER -> a.v < b.v

\* range(min_states, max_states + 1)
CandidateRange == min_states..max_states

\* A plausible slip: best_k starts outside the range (0, None, ...).
initial_best_k_below == min_states - 1

\* best_k = min_states
initial_best_k == min_states

\* The arguments: a non-empty range, min_states <= max_states, as the callers
\* pass it (MIN_STATES..MAX_STATES by default).
InitSel ==
    /\ FEIdle
    /\ InterpIdle
    /\ SBIdle
    /\ CLIIdle
    /\ HMMIdle
    /\ min_states \in 1..MaxK
    /\ max_states \in min_states..MaxK
    /\ cand \in [min_states..max_states -> BicValues \cup {Raises}]
    /\ sel_k = 0
    /\ best_bic = None
    /\ best_k = 0
    /\ sel_result = None
    /\ sel_pc = "ready"

\* best_bic = np.inf; best_k = min_states; the loop starts at min_states.
SelectEnter ==
    /\ sel_pc = "ready"
    /\ best_bic' = Inf
    /\ best_k' = initial_best_k
    /\ sel_k' = min_states
    /\ sel_pc' = "loop"
    /\ UNCHANGED <<min_states, max_states, cand, sel_result>>
    /\ UNCHANGED <<sbVars, hmmVars, cliVars, interpVars, feVars>>

\* One pass of the loop body in which fit and compute_bic complete.
CandidateFits ==
    /\ sel_pc = "loop"
    /\ sel_k \in CandidateRange
    /\ cand[sel_k] # Raises
    /\ IF FloatLess(cand[sel_k], best_bic)
       THEN best_bic' = cand[sel_k] /\ best_k' = sel_k
       ELSE UNCHANGED <<best_bic, best_k>>
    /\ sel_k' = sel_k + 1
    /\ UNCHANGED <<min_states, max_states, cand, sel_result, sel_pc>>
    /\ UNCHANGED <<sbVars, hmmVars, cliVars, interpVars, feVars>>

\* One pass of the loop body that raises: except Exception: continue.
CandidateRaises ==
    /\ sel_pc = "loop"
    /\ sel_k \in CandidateRange
    /\ cand[sel_k] = Raises
    /\ sel_k' = sel_k + 1
    /\ UNCHANGED <<min_states, max_states, cand, best_bic, best_k, sel_result, sel_pc>>
    /\ UNCHANGED <<sbVars, hmmVars, cliVars, interpVars, feVars>>

\* return best_k
SelectReturn ==
    /\ sel_pc = "loop"
    /\ sel_k \notin CandidateRange
    /\ sel_result' = best_k
    /\ sel_pc' = "returned"
    /\ UNCHANGED <<min_states, max_states, cand, sel_k, best_bic, best_k>>
    /\ UNCHANGED <<sbVars, hmmVars, cliVars, interpVars, feVars>>

NextSel ==
    \/ SelectEnter
    \/ CandidateFits
    \/ CandidateRaises
    \/ SelectReturn

SpecSel == InitSel /\ [][NextSel]_vars

\* C10: select_n_states(min_states, max_states) returns a value K with
\* min_states <= K <= max_states, whatever candidates fail to fit and whatever
\* BIC values the candidates produce.
C10_SelectedInRange ==
    sel_pc = "returned" =>
        /\ sel_result \in Int
        /\ min_states <= sel_result
        /\ sel_result <= max_states

\* A selection returned a K above min_states although one candidate raised and
\* another produced nan.
C10_Witness ==
    /\ sel_pc = "returned"
    /\ sel_result > min_states
    /\ \E i \in CandidateRange : cand[i] = Raises
    /\ \E i \in CandidateRange : cand[i] = NaN

\* The candidates whose fit and compute_bic completed.
Succeeded == {i \in CandidateRange : cand[i] # Raises}

\* Every BIC that was computed is a finite number.
FiniteBics == \A i \in Succeeded : cand[i].kind = "num"

\* The lowest K among the succeeded candidates of minimum BIC.
LowestMinBic ==
    CHOOSE i \in Succeeded :
        \A j \in Succeeded :
            \/ cand[i].v < cand[j].v
            \/ cand[i].v = cand[j].v /\ i <= j

\* C11: select_n_states runs the loop body for every K of the range, also
\* after a candidate raised, and returns the lowest K of minimum BIC among
\* the candidates that succeeded, or min_states when none succeeded (BICs
\* being finite numbers).
C11_MinBicSelected ==
    (sel_pc = "returned" /\ FiniteBics) =>
        /\ sel_k = max_states + 1
        /\ sel_result = IF Succeeded = {} THEN min_states ELSE LowestMinBic

\* The first candidate raised, two later ones share the minimum BIC and the
\* lower of them was returned.
C11_Witness ==
    /\ sel_pc = "returned"
    /\ FiniteBics
    /\ cand[min_states] = Raises
    /\ \E i, j \in Succeeded : i < j /\ cand[i] = cand[j] /\ sel_result = i

\* C12: when every candidate of the range fails to fit, select_n_states ends
\* in an error and returns no state count.
C12_TotalFailureIsFatal ==
    (sel_pc = "returned" /\ Succeeded = {}) => sel_result \notin Int

(***************************************************************************)
(* SessionBuilder: construction, then one call of build_sessions.          *)
(***************************************************************************)
\* gap_ms is a duration, so not negative.
InitSB ==
    /\ FEIdle
    /\ InterpIdle
    /\ HMMIdle
    /\ CLIIdle
    /\ SelIdle
    /\ gap_ms \in 0..MaxGap
    /\ min_length \in 0..MaxMinLen
    /\ flows \in FlowTables
    /\ sessions = <<>>
    /\ sb_pc = "ready"

BuildSessions ==
    /\ sb_pc = "ready"
    /\ \E pick \in SortChoices(flows) :
          sessions' = build_sessions(flows, pick)
    /\ sb_pc' = "done"
    /\ UNCHANGED <<gap_ms, min_length, flows>>
    /\ UNCHANGED <<hmmVars, selVars, cliVars, interpVars, feVars>>

NextSB == BuildSessions

SpecSB == InitSB /\ [][NextSB]_vars

(***************************************************************************)
(* Properties of build_sessions.                                           *)
(***************************************************************************)
SessionRows(s) == {s.rows[i] : i \in DOMAIN s.rows}

\* The sessions (by position in the returned list) that hold row r.
SessionOf(r) == {k \in DOMAIN sessions : r \in SessionRows(sessions[k])}

\* How often row r occurs in the returned sessions.
Occurrences(r) ==
    Cardinality({p \in (DOMAIN sessions) \X (1..(MaxFlows + 1)) :
                    /\ p[2] \in DOMAIN sessions[p[1]].rows
                    /\ sessions[p[1]].rows[p[2]] = r})

\* b follows a in time within one source, with no flow strictly between.
TimeAdjacent(a, b) ==
    /\ a # b
    /\ a.IPV4_SRC_ADDR = b.IPV4_SRC_ADDR
    /\ a.FLOW_START_MILLISECONDS <= b.FLOW_START_MILLISECONDS
    /\ ~ \E c \in RowsOf(flows) :
            /\ c.IPV4_SRC_ADDR = a.IPV4_SRC_ADDR
            /\ a.FLOW_START_MILLISECONDS < c.FLOW_START_MILLISECONDS
            /\ c.FLOW_START_MILLISECONDS < b.FLOW_START_MILLISECONDS

GapOf(a, b) == b.FLOW_START_MILLISECONDS - a.FLOW_START_MILLISECONDS

\* a and b lie in one maximal run: same source, and no time-adjacent pair
\* between them is more than gap_ms apart.
SameRun(a, b) ==
    /\ a.IPV4_SRC_ADDR = b.IPV4_SRC_ADDR
    /\ ~ \E c, d \in Group(flows, a.IPV4_SRC_ADDR) :
            /\ TimeAdjacent(c, d)
            /\ GapOf(c, d) > gap_ms
            /\ \/ /\ a.FLOW_START_MILLISECONDS <= c.FLOW_START_MILLISECONDS
                  /\ d.FLOW_START_MILLISECONDS <= b.FLOW_START_MILLISECONDS
               \/ /\ b.FLOW_START_MILLISECONDS <= c.FLOW_START_MILLISECONDS
                  /\ d.FLOW_START_MILLISECONDS <= a.FLOW_START_MILLISECONDS

RunSize(r) == Cardinality({x \in RowsOf(flows) : SameRun(r, x)})

\* C1: every returned session holds flows of exactly one source address, is
\* sorted ascending by FLOW_START_MILLISECONDS, has every consecutive pair of
\* flows at most gap_ms apart, and has at least min_length flows.
C1_SessionInvariant ==
    sb_pc = "done" =>
        \A k \in DOMAIN sessions :
            LET rows == sessions[k].rows IN
            /\ \A i, j \in DOMAIN rows : rows[i].IPV4_SRC_ADDR = rows[j].IPV4_SRC_ADDR
            /\ \A i \in 1..(Len(rows) - 1) :
                  /\ rows[i].FLOW_START_MILLISECONDS <= rows[i + 1].FLOW_START_MILLISECONDS
                  /\ rows[i + 1].FLOW_START_MILLISECONDS
                        - rows[i].FLOW_START_MILLISECONDS <= gap_ms
            /\ Len(rows) >= min_length

\* A session of several flows was built from input that was not in time order,
\* next to flows of another source.
C1_Witness ==
    /\ sb_pc = "done"
    /\ min_length >= 2
    /\ \E k \in DOMAIN sessions :
          \E i \in 1..(Len(sessions[k].rows) - 1) :
              /\ sessions[k].rows[i].row > sessions[k].rows[i + 1].row
              /\ sessions[k].rows[i].FLOW_START_MILLISECONDS
                    < sessions[k].rows[i + 1].FLOW_START_MILLISECONDS
    /\ Cardinality({r.IPV4_SRC_ADDR : r \in RowsOf(flows)}) = 2

\* C2: the split boundary is inclusive: two time-adjacent flows of one source
\* whose gap is at most gap_ms (in particular exactly gap_ms) share their
\* session, and two whose gap is greater than gap_ms (in particular gap_ms + 1)
\* are never in the same session.
C2_BoundaryInclusive ==
    sb_pc = "done" =>
        \A a, b \in RowsOf(flows) :
            TimeAdjacent(a, b) =>
                /\ GapOf(a, b) <= gap_ms => SessionOf(a) = SessionOf(b)
                /\ GapOf(a, b) > gap_ms => SessionOf(a) \cap SessionOf(b) = {}

\* One call in which a gap of exactly gap_ms kept two flows together and a gap
\* of gap_ms + 1 split two flows that both ended up in sessions.
C2_Witness ==
    /\ sb_pc = "done"
    /\ \E a, b \in RowsOf(flows) :
          /\ TimeAdjacent(a, b)
          /\ GapOf(a, b) = gap_ms
          /\ gap_ms > 0
          /\ SessionOf(a) # {}
          /\ SessionOf(a) = SessionOf(b)
    /\ \E c, d \in RowsOf(flows) :
          /\ TimeAdjacent(c, d)
          /\ GapOf(c, d) = gap_ms + 1
          /\ SessionOf(c) # {}
          /\ SessionOf(d) # {}
          /\ SessionOf(c) \cap SessionOf(d) = {}

\* C3: build_sessions neither duplicates nor invents flows: every row of a
\* session is an input row, every input row occurs at most once in the
\* output, and a row is missing exactly when its maximal run has fewer than
\* min_length flows (so an empty input gives an empty list).
C3_NoDuplicateNoInvent ==
    sb_pc = "done" =>
        /\ \A k \in DOMAIN sessions : SessionRows(sessions[k]) \subseteq RowsOf(flows)
        /\ \A r \in RowsOf(flows) :
              /\ Occurrences(r) <= 1
              /\ Occurrences(r) = 0 <=> RunSize(r) < min_length
        /\ flows = <<>> => sessions = <<>>

\* One call that kept a run and dropped a shorter one.
C3_Witness ==
    /\ sb_pc = "done"
    /\ min_length >= 2
    /\ \E r, q \in RowsOf(flows) :
          /\ Occurrences(r) = 0
          /\ Occurrences(q) = 1

\* C4: every returned session carries the id "{source address}_{earliest
\* start time of the session}", and no two sessions of one call share an id.
C4_SessionId ==
    sb_pc = "done" =>
        /\ \A k \in DOMAIN sessions :
              \E r \in SessionRows(sessions[k]) :
                  /\ \A q \in SessionRows(sessions[k]) :
                        r.FLOW_START_MILLISECONDS <= q.FLOW_START_MILLISECONDS
                  /\ sessions[k].session_id
                        = r.IPV4_SRC_ADDR \o "_" \o ToString(r.FLOW_START_MILLISECONDS)
        /\ \A k, l \in DOMAIN sessions :
              k # l => sessions[k].session_id # sessions[l].session_id

\* Two sessions of one source, and a session that does not start at its
\* source's first flow in input order.
C4_Witness ==
    /\ sb_pc = "done"
    /\ \E k, l \in DOMAIN sessions :
          /\ k # l
          /\ sessions[k].rows[1].IPV4_SRC_ADDR = sessions[l].rows[1].IPV4_SRC_ADDR
          /\ Len(sessions[k].rows) >= 2
          /\ sessions[k].rows[1].row > sessions[k].rows[2].row

(***************************************************************************)
(* The commands.  Each builds its sessions with SessionBuilder(), that is  *)
(* with the configured defaults.  label and evaluate load a model that     *)
(* train saved, so a fitted one; its state labels are CliStates.  A        *)
(* confidence is a number of hundredths.                                   *)
(***************************************************************************)
SESSION_GAP_MS == 1800000

MIN_SESSION_LENGTH == 3

MIN_STATES == 4

MAX_STATES == 15

MAX_SESSION_SIZE == 1000

\* Start times that put two flows of a source in one run, or beyond the gap.
CliTimes == {0, SESSION_GAP_MS + 1}

CliTables == FlowTablesOf(MaxCliFlows, CliTimes)

\* The state labels the loaded model decodes to.
CliStates == {0, 1}

\* What MitreMapper.map may return for the signature of a state.
MapResults == {<<"Unknown", 0>>, <<"Reconnaissance", 50>>}

\* The outcomes of model.predict_states: one label per row of each session.
Labelings(sess) ==
    LET all == UNION {[1..Len(sess[i].rows) -> CliStates] : i \in DOMAIN sess}
    IN {d \in [DOMAIN sess -> all] :
            \A i \in DOMAIN sess : DOMAIN d[i] = 1..Len(sess[i].rows)}

\* The states of the labeled frame: analyze yields one signature for each.
PresentStates(d) == UNION {{d[i][j] : j \in DOMAIN d[i]} : i \in DOMAIN d}

\* A row with the three HMM columns set.
Labeled(r, state, tactic, confidence) ==
    [IPV4_SRC_ADDR |-> r.IPV4_SRC_ADDR,
     FLOW_START_MILLISECONDS |-> r.FLOW_START_MILLISECONDS,
     row |-> r.row,
     HMM_STATE |-> state,
     HMM_TACTIC |-> tactic,
     HMM_CONFIDENCE |-> confidence]

\* A plausible slip: the labels written one-based.
RECURSIVE ConcatLabeled_oneBased(_, _, _, _)
ConcatLabeled_oneBased(sess, d, mappings, i) ==
    IF i > Len(sess) THEN <<>>
    ELSE [j \in 1..Len(sess[i].rows) |->
              Labeled(sess[i].rows[j], d[i][j] + 1,
                      mappings[d[i][j]][1], mappings[d[i][j]][2])]
            \o ConcatLabeled_oneBased(sess, d, mappings, i + 1)

\* pd.concat(all_labeled, ignore_index=True), then the tactic and confidence
\* columns from mappings, then session_id dropped.
RECURSIVE ConcatLabeled(_, _, _, _)
ConcatLabeled(sess, d, mappings, i) ==
    IF i > Len(sess) THEN <<>>
    ELSE [j \in 1..Len(sess[i].rows) |->
              Labeled(sess[i].rows[j], d[i][j],
                      mappings[d[i][j]][1], mappings[d[i][j]][2])]
            \o ConcatLabeled(sess, d, mappings, i + 1)

Min(a, b) == IF a < b THEN a ELSE b

\* The columns an input file may lack: one the session builder reads and
\* one only the feature extractor reads.
MissingColumns == {"IPV4_SRC_ADDR", "IN_BYTES"}

\* flows.groupby('IPV4_SRC_ADDR') raises KeyError on a frame without the
\* column; an empty frame returns before it.
BuildRaises(tbl, miss) == tbl # <<>> /\ "IPV4_SRC_ADDR" \in miss

\* flows['IN_BYTES'] raises KeyError in _extract_features.
ExtractRaises(miss) == "IN_BYTES" \in miss

\* session.head(n)
head(rows, n) == SubSeq(rows, 1, Min(Len(rows), n))

\* The feature rows of a frame, one per flow, in the frame's order.
FeatureRows(rows) == [j \in DOMAIN rows |-> rows[j].row]

\* A plausible slip: the length taken before the session is cut.
RECURSIVE TrainLoop_uncut(_, _, _)
TrainLoop_uncut(sess, cap, i) ==
    IF i > Len(sess) THEN [X |-> <<>>, lengths |-> <<>>]
    ELSE LET features == FeatureRows(head(sess[i].rows, cap))
             rest == TrainLoop_uncut(sess, cap, i + 1)
         IN [X |-> features \o rest.X,
             lengths |-> <<Len(sess[i].rows)>> \o rest.lengths]

\* train_model's loop, then np.vstack(all_features).
RECURSIVE TrainLoop(_, _, _)
TrainLoop(sess, cap, i) ==
    IF i > Len(sess) THEN [X |-> <<>>, lengths |-> <<>>]
    ELSE LET features == FeatureRows(head(sess[i].rows, cap))
             rest == TrainLoop(sess, cap, i + 1)
         IN [X |-> features \o rest.X,
             lengths |-> <<Len(features)>> \o rest.lengths]

\* evaluate_model's loop, then np.vstack(all_features); label_flows hands the
\* same blocks to predict_states one by one.
RECURSIVE EvaluateLoop(_, _)
EvaluateLoop(sess, i) ==
    IF i > Len(sess) THEN [X |-> <<>>, lengths |-> <<>>]
    ELSE LET features == FeatureRows(sess[i].rows)
             rest == EvaluateLoop(sess, i + 1)
         IN [X |-> features \o rest.X,
             lengths |-> <<Len(features)>> \o rest.lengths]

\* What the model is handed: the rows, the lengths, and how the rows were
\* scaled: "fit" (the scaler fitted on these rows), "fitted" (the scaler of
\* the extractor file) or "raw" (not scaled).
Observations(o, normalized) ==
    [X |-> o.X, lengths |-> o.lengths, normalized |-> normalized]

\* extractor.transform(session, normalize=extractor._is_fitted): the extractor
\* of the file is the fitted one train_model stored; the one made when the
\* file is not found is not fitted.
Inference(o, found) == Observations(o, IF found THEN "fitted" ELSE "raw")

\* A plausible slip: label_flows without the branch for no sessions, where
\* pd.concat of an empty list raises.
label_flows_noFallback(tbl, sess, d, mappings, miss, found) ==
    IF BuildRaises(tbl, miss)
    THEN [out |-> None,
          result |-> Raised("label_flows", None, "KeyError", "IPV4_SRC_ADDR"),
          calls |-> {"load"}, files |-> <<>>, observations |-> None]
    ELSE IF sess = <<>>
    THEN [out |-> None,
          result |-> Raised("label_flows", None, "ValueError",
                            "No objects to concatenate"),
          calls |-> {"load"}, files |-> <<>>, observations |-> None]
    ELSE IF ExtractRaises(miss)
    THEN [out |-> None,
          result |-> Raised("label_flows", None, "KeyError", "IN_BYTES"),
          calls |-> {"load"}, files |-> <<>>, observations |-> None]
    ELSE [out |-> ConcatLabeled(sess, d, mappings, 1),
          result |-> Returned("label_flows", None, None),
          calls |-> {"load", "predict_states"}, files |-> <<>>,
          observations |-> Inference(EvaluateLoop(sess, 1), found)]

\* miss holds the columns the file lacks; found tells whether the extractor file
\* is there.
label_flows(tbl, sess, d, mappings, miss, found) ==
    IF BuildRaises(tbl, miss)
    THEN [out |-> None,
          result |-> Raised("label_flows", None, "KeyError", "IPV4_SRC_ADDR"),
          calls |-> {"load"}, files |-> <<>>, observations |-> None]
    ELSE IF sess = <<>>
    THEN [out |-> [i \in DOMAIN tbl |-> Labeled(tbl[i], -1, "Unknown", 0)],
          result |-> Returned("label_flows", None, None),
          calls |-> {"load"}, files |-> <<>>, observations |-> None]
    ELSE IF ExtractRaises(miss)
    THEN [out |-> None,
          result |-> Raised("label_flows", None, "KeyError", "IN_BYTES"),
          calls |-> {"load"}, files |-> <<>>, observations |-> None]
    ELSE [out |-> ConcatLabeled(sess, d, mappings, 1),
          result |-> Returned("label_flows", None, None),
          calls |-> {"load", "predict_states"}, files |-> <<>>,
          observations |-> Inference(EvaluateLoop(sess, 1), found)]

\* Values of output_path (and of model_path), in pieces: str.replace acts on
\* each ".pkl" piece, and no other piece holds a part of ".pkl".
CliPaths ==
    {<<"model", ".pkl">>, <<"model", ".bin">>, <<"model">>,
     <<"model", ".pkl", ".bin">>}

\* path.replace('.pkl', '_extractor.pkl')
RECURSIVE extractor_path(_)
extractor_path(path) ==
    IF path = <<>> THEN <<>>
    ELSE (IF Head(path) = ".pkl" THEN <<"_extractor", ".pkl">> ELSE <<Head(path)>>)
            \o extractor_path(Tail(path))

\* What joblib.dump stores: model.save's dict, and the extractor.
SavedModel(n) == [kind |-> "model", n_states |-> n]

SavedExtractor == [kind |-> "extractor"]

\* model.save(output_path), then joblib.dump(extractor, extractor_path).
TrainWrites(path, n) ==
    [p \in {path, extractor_path(path)} |->
        IF p = extractor_path(path) THEN SavedExtractor ELSE SavedModel(n)]

\* n is the n_states argument, or what select_n_states returned; fit_ok tells
\* whether model.fit returned or raised on these observations; cap is the
\* argument max_session_size.
train_model(tbl, sess, path, select_k, n, fit_ok, miss, cap) ==
    LET selecting == IF select_k THEN {"select_n_states"} ELSE {}
        o == TrainLoop(sess, cap, 1)
    IN
    IF BuildRaises(tbl, miss)
    THEN [out |-> None,
          result |-> Raised("train_model", None, "KeyError", "IPV4_SRC_ADDR"),
          calls |-> {}, files |-> <<>>, observations |-> None]
    ELSE IF sess = <<>>
    THEN [out |-> None,
          result |-> Raised("train_model", None, "ValueError",
                            "No valid sessions found in data"),
          calls |-> {}, files |-> <<>>, observations |-> None]
    ELSE IF ExtractRaises(miss)
    THEN [out |-> None,
          result |-> Raised("train_model", None, "KeyError", "IN_BYTES"),
          calls |-> {}, files |-> <<>>, observations |-> None]
    ELSE IF ~fit_ok
    THEN [out |-> None,
          result |-> Raised("train_model", None, "LibraryError", ""),
          calls |-> selecting \cup {"fit"}, files |-> <<>>,
          observations |-> Observations(o, "fit")]
    ELSE [out |-> None,
          result |-> Returned("train_model", None,
                        [n_states |-> n,
                         n_sessions |-> Len(sess),
                         n_flows |-> Len(o.X)]),
          calls |-> selecting \cup {"fit", "save", "score"},
          files |-> TrainWrites(path, n),
          observations |-> Observations(o, "fit")]

evaluate_model(tbl, sess, d, mappings, miss, found) ==
    IF BuildRaises(tbl, miss)
    THEN [out |-> None,
          result |-> Raised("evaluate_model", None, "KeyError", "IPV4_SRC_ADDR"),
          calls |-> {"load"}, files |-> <<>>, observations |-> None]
    ELSE IF sess = <<>>
    THEN [out |-> None,
          result |-> Returned("evaluate_model", None,
                        [error |-> "No valid sessions found",
                         n_flows |-> Len(tbl),
                         n_sessions |-> 0]),
          calls |-> {"load"}, files |-> <<>>, observations |-> None]
    ELSE IF ExtractRaises(miss)
    THEN [out |-> None,
          result |-> Raised("evaluate_model", None, "KeyError", "IN_BYTES"),
          calls |-> {"load"}, files |-> <<>>, observations |-> None]
    ELSE [out |-> None,
          result |-> Returned("evaluate_model", None,
                        [n_states |-> Cardinality(CliStates),
                         n_sessions |-> Len(sess),
                         n_flows |-> Len(EvaluateLoop(sess, 1).X),
                         tactic_mappings |-> mappings]),
          calls |-> {"load", "predict_states", "get_transition_matrix", "score"},
          files |-> <<>>,
          observations |-> Inference(EvaluateLoop(sess, 1), found)]

InitCLI ==
    /\ FEIdle
    /\ InterpIdle
    /\ HMMIdle
    /\ SelIdle
    /\ gap_ms = SESSION_GAP_MS
    /\ min_length = MIN_SESSION_LENGTH
    /\ flows \in CliTables
    /\ sessions = <<>>
    /\ sb_pc = "ready"
    /\ cli_cmd = "none"
    /\ cli_pc = "ready"
    /\ decoded = <<>>
    /\ cli_out = None
    /\ cli_result = None
    /\ cli_calls = {}
    /\ output_path = None
    /\ cli_fs = <<>>
    /\ missing = {}
    /\ observations = None
    /\ max_session_size = 0

\* What every command leaves behind: sess built, r as computed.
Ran(cmd, path, cap, sess, d, r) ==
    /\ max_session_size' = cap
    /\ cli_cmd' = cmd
    /\ output_path' = path
    /\ cli_fs' = r.files
    /\ cli_pc' = "done"
    /\ sessions' = sess
    /\ sb_pc' = "done"
    /\ decoded' = d
    /\ cli_out' = r.out
    /\ cli_result' = r.result
    /\ cli_calls' = r.calls
    /\ observations' = r.observations
    /\ UNCHANGED <<gap_ms, min_length, flows, missing>>
    /\ UNCHANGED <<hmmVars, selVars, interpVars, feVars>>

\* What build_sessions returns; nothing when it raises.
Built(pick) ==
    IF BuildRaises(flows, missing) THEN <<>> ELSE build_sessions(flows, pick)

\* The labels predict_states returns; none when the command stops before it.
Decodings(sess) ==
    IF ExtractRaises(missing) THEN {<<>>} ELSE Labelings(sess)

LabelFlows ==
    /\ cli_pc = "ready"
    /\ \E pick \in SortChoices(flows), found \in BOOLEAN :
          LET sess == Built(pick) IN
          \E d \in Decodings(sess) :
             \E mappings \in [PresentStates(d) -> MapResults] :
                Ran("label", None, 0, sess, d,
                    label_flows(flows, sess, d, mappings, missing, found))

TrainModel ==
    /\ cli_pc = "ready"
    /\ \E pick \in SortChoices(flows) :
          LET sess == Built(pick) IN
          \E path \in CliPaths, select_k \in BOOLEAN, fit_ok \in BOOLEAN,
             cap \in {MAX_SESSION_SIZE, MIN_SESSION_LENGTH - 1} :
             \E n \in IF select_k THEN MIN_STATES..MAX_STATES
                                  ELSE {DEFAULT_N_STATES} :
                Ran("train", path, cap, sess, <<>>,
                    train_model(flows, sess, path, select_k, n, fit_ok,
                                missing, cap))

EvaluateModel ==
    /\ cli_pc = "ready"
    /\ \E pick \in SortChoices(flows), found \in BOOLEAN :
          LET sess == Built(pick) IN
          \E d \in Decodings(sess) :
             \E mappings \in [PresentStates(d) -> MapResults] :
                Ran("evaluate", None, 0, sess, d,
                    evaluate_model(flows, sess, d, mappings, missing, found))

NextCLI == LabelFlows \/ TrainModel \/ EvaluateModel

SpecCLI == InitCLI /\ [][NextCLI]_vars

\* The commands on a file that lacks a column of the schema.
InitMissing ==
    /\ FEIdle
    /\ InterpIdle
    /\ HMMIdle
    /\ SelIdle
    /\ gap_ms = SESSION_GAP_MS
    /\ min_length = MIN_SESSION_LENGTH
    /\ flows \in FlowTablesOf(MaxMissingFlows, CliTimes)
    /\ sessions = <<>>
    /\ sb_pc = "ready"
    /\ cli_cmd = "none"
    /\ cli_pc = "ready"
    /\ decoded = <<>>
    /\ cli_out = None
    /\ cli_result = None
    /\ cli_calls = {}
    /\ output_path = None
    /\ cli_fs = <<>>
    /\ missing \in {{c} : c \in MissingColumns}
    /\ observations = None
    /\ max_session_size = 0

SpecMissing == InitMissing /\ [][NextCLI]_vars

\* Flows of the two sources in any interleaving, one per millisecond.
ObsTables ==
    UNION {{[i \in 1..n |-> [IPV4_SRC_ADDR |-> c[i],
                             FLOW_START_MILLISECONDS |-> i,
                             row |-> i]] :
                c \in [1..n -> AddrSet]} : n \in 0..MaxObsFlows}

\* The commands on files long enough for two sessions.
InitObs ==
    /\ FEIdle
    /\ InterpIdle
    /\ HMMIdle
    /\ SelIdle
    /\ gap_ms = SESSION_GAP_MS
    /\ min_length = MIN_SESSION_LENGTH
    /\ flows \in ObsTables
    /\ sessions = <<>>
    /\ sb_pc = "ready"
    /\ cli_cmd = "none"
    /\ cli_pc = "ready"
    /\ decoded = <<>>
    /\ cli_out = None
    /\ cli_result = None
    /\ cli_calls = {}
    /\ output_path = None
    /\ cli_fs = <<>>
    /\ missing = {}
    /\ observations = None
    /\ max_session_size = 0

SpecObs == InitObs /\ [][NextCLI]_vars

(***************************************************************************)
(* Properties of the commands.                                             *)
(***************************************************************************)
InSomeSession(r) ==
    \E i \in DOMAIN sessions : \E j \in DOMAIN sessions[i].rows :
        sessions[i].rows[j] = r

DecodedStateOf(r) ==
    LET p == CHOOSE p \in (DOMAIN sessions) \X (1..(MaxCliFlows + 1)) :
                 /\ p[2] \in DOMAIN sessions[p[1]].rows
                 /\ sessions[p[1]].rows[p[2]] = r
    IN decoded[p[1]][p[2]]

OutRowsOf(r) == {k \in DOMAIN cli_out : cli_out[k].row = r.row}

LabelDone == cli_cmd = "label" /\ cli_pc = "done"

\* C5: the output of label_flows has exactly one row for every input flow;
\* a flow of a valid session carries its decoded state, a flow of no valid
\* session carries HMM_STATE = -1, also when other flows formed sessions.
C5_OneRowPerFlow ==
    (LabelDone /\ missing = {}) =>
        /\ Len(cli_out) = Len(flows)
        /\ \A i \in DOMAIN flows :
              /\ Cardinality(OutRowsOf(flows[i])) = 1
              /\ \A k \in OutRowsOf(flows[i]) :
                    cli_out[k].HMM_STATE =
                        IF InSomeSession(flows[i]) THEN DecodedStateOf(flows[i])
                                                   ELSE -1

\* C6: when no session survives segmentation, label_flows writes every input
\* flow with HMM_STATE = -1, HMM_TACTIC = "Unknown", HMM_CONFIDENCE = 0 and
\* never asks the model to decode; train_model raises the ValueError "No
\* valid sessions found in data" before any fit; evaluate_model returns the
\* error "No valid sessions found" with n_sessions = 0 before any decoding.
C6_NoSessionsHandled ==
    (cli_pc = "done" /\ sessions = <<>> /\ ~BuildRaises(flows, missing)) =>
        /\ cli_cmd = "label" =>
              /\ cli_result = Returned("label_flows", None, None)
              /\ cli_out = [i \in DOMAIN flows |->
                               Labeled(flows[i], -1, "Unknown", 0)]
              /\ cli_calls \subseteq {"load"}
        /\ cli_cmd = "train" =>
              /\ cli_result.raised = "ValueError"
              /\ cli_result.message = "No valid sessions found in data"
              /\ cli_calls = {}
              /\ cli_out = None
        /\ cli_cmd = "evaluate" =>
              /\ cli_result.raised = ""
              /\ cli_result.value.error = "No valid sessions found"
              /\ cli_result.value.n_sessions = 0
              /\ cli_result.value.n_flows = Len(flows)
              /\ cli_calls \subseteq {"load"}

C6_Witness ==
    /\ LabelDone
    /\ sessions = <<>>
    /\ Len(flows) = 2
    /\ cli_out # None
    /\ \A k \in DOMAIN cli_out : cli_out[k].HMM_STATE = -1

TrainReturned == cli_cmd = "train" /\ cli_pc = "done" /\ cli_result.raised = ""

\* C14: after train_model returns, the file at output_path holds the trained
\* model with the trained n_states, and the extractor is stored at a sibling
\* path different from output_path, the one label and evaluate derive.
C14_ModelFileKept ==
    TrainReturned =>
        /\ output_path \in DOMAIN cli_fs
        /\ cli_fs[output_path] = SavedModel(cli_result.value.n_states)
        /\ extractor_path(output_path) # output_path
        /\ extractor_path(output_path) \in DOMAIN cli_fs
        /\ cli_fs[extractor_path(output_path)] = SavedExtractor

\* The rows written before those of session i.
RECURSIVE RowsBefore(_)
RowsBefore(i) == IF i = 1 THEN 0 ELSE RowsBefore(i - 1) + Len(sessions[i - 1].rows)

\* C15: with K the number of states of the loaded model, predict_states gave
\* one label in 0..K-1 for each row of each session, and label_flows wrote,
\* in session order, each session row with exactly that label, so every
\* HMM_STATE of a session flow lies in 0..K-1.
C15_LabelsInRange ==
    (LabelDone /\ sessions # <<>> /\ ~ExtractRaises(missing)) =>
        LET K == Cardinality(CliStates) IN
        /\ \A i \in DOMAIN sessions :
              /\ Len(decoded[i]) = Len(sessions[i].rows)
              /\ \A j \in DOMAIN decoded[i] :
                    /\ decoded[i][j] \in 0..(K - 1)
                    /\ cli_out[RowsBefore(i) + j].row = sessions[i].rows[j].row
                    /\ cli_out[RowsBefore(i) + j].HMM_STATE = decoded[i][j]
        /\ \A k \in DOMAIN cli_out : cli_out[k].HMM_STATE \in 0..(K - 1)

\* A session of three flows was labeled with both states of the model.
C15_Witness ==
    /\ LabelDone
    /\ Len(sessions) = 1
    /\ cli_out # None
    /\ Len(cli_out) = 3
    /\ {cli_out[k].HMM_STATE : k \in DOMAIN cli_out} = CliStates

\* A command ran to the point of handing observations to the model.
Handed(cmds) ==
    cli_pc = "done" /\ cli_cmd \in cmds /\ observations # None

\* C24: at inference (label_flows, evaluate_model) the features handed to
\* the model are always scaled with the normalizer stored at training, never
\* raw.
C24_InferenceNormalized ==
    Handed({"label", "evaluate"}) => observations.normalized = "fitted"

\* C25: on a file that lacks a required column every command raises an error
\* that names the missing column, and no output, model or extractor file is
\* written, whether or not a session would be formed.
C25_MissingColumnFatal ==
    (cli_pc = "done" /\ missing # {}) =>
        /\ cli_result.raised # ""
        /\ cli_result.message \in missing
        /\ cli_out = None
        /\ cli_fs = <<>>

\* The rows of X before block i.
RECURSIVE BlockStart(_)
BlockStart(i) ==
    IF i = 1 THEN 0 ELSE BlockStart(i - 1) + observations.lengths[i - 1]

RECURSIVE SumSeq(_)
SumSeq(q) == IF q = <<>> THEN 0 ELSE Head(q) + SumSeq(Tail(q))

\* C27: in train_model and evaluate_model the lengths sum to the number of
\* rows of X; length i is the row count of block i of X, which holds the
\* features of session i in session order; in train_model a session
\* contributes its first max_session_size flows, so no length exceeds
\* max_session_size.
C27_LengthsMatchBlocks ==
    Handed({"train", "evaluate"}) =>
        /\ Len(observations.lengths) = Len(sessions)
        /\ SumSeq(observations.lengths) = Len(observations.X)
        /\ \A i \in DOMAIN sessions :
              /\ observations.lengths[i] =
                    IF cli_cmd = "train"
                    THEN Min(Len(sessions[i].rows), max_session_size)
                    ELSE Len(sessions[i].rows)
              /\ \A j \in 1..observations.lengths[i] :
                    observations.X[BlockStart(i) + j] = sessions[i].rows[j].row
              /\ cli_cmd = "train" => observations.lengths[i] <= max_session_size

\* train_model cut two sessions of three flows to two flows each.
C27_Witness ==
    /\ Handed({"train"})
    /\ cli_result.raised = ""
    /\ Len(sessions) = 2
    /\ \A i \in DOMAIN sessions : Len(sessions[i].rows) > max_session_size
    /\ observations.lengths = <<2, 2>>
    /\ Len(observations.X) = 4

(***************************************************************************)
(* MitreMapper.  Byte counts, durations and packet rates are whole         *)
(* numbers; bytes_ratio, the fractions of a distribution, the scores and   *)
(* the confidence are hundredths.  avg_duration_ms may also be nan (the    *)
(* mean of a column without values), which fails every comparison.         *)
(***************************************************************************)
Lt(a, n) == a.kind = "num" /\ a.v < n

Gt(a, n) == a.kind = "num" /\ a.v > n

InBytes == {100, 700, 5000, 200000}

OutBytes == {100, 700, 20000}

Ratios == {5, 100, 500}

Durations ==
    {NaN} \cup {Num(n) : n \in {500, 1000, 3000, 5000, 7000, 10000, 20000,
                                30000, 40000}}

PktRates == {1, 5, 20}

\* protocol_dist: the fractions of tcp, udp and icmp flows.
ProtocolDists ==
    {[tcp |-> 100, udp |-> 0, icmp |-> 0], [tcp |-> 85, udp |-> 15, icmp |-> 0],
     [tcp |-> 75, udp |-> 25, icmp |-> 0], [tcp |-> 50, udp |-> 0, icmp |-> 50]}

\* port_category_dist: the fractions of well-known, registered and ephemeral
\* destination ports.
PortDists ==
    {<<100, 0, 0>>, <<55, 30, 15>>, <<0, 100, 0>>, <<0, 0, 100>>}

FlowCounts == {10, 2000}

Signatures ==
    [state_id : {0},
     avg_in_bytes : InBytes,
     avg_out_bytes : OutBytes,
     bytes_ratio : Ratios,
     avg_duration_ms : Durations,
     avg_pkts_per_sec : PktRates,
     protocol_dist : ProtocolDists,
     port_category_dist : PortDists,
     flow_count : FlowCounts]

\* sig.port_category_dist.get(c, 0), for the category c
PortShare(s, c) == s.port_category_dist[c + 1]

\* The weight of a check that holds, 0 of one that does not.
W(holds, weight) == IF holds THEN weight ELSE 0

Max(a, b) == IF a > b THEN a ELSE b

\* _clamp(value): max(0.0, min(1.0, value))
clamp(value) == Max(0, Min(100, value))

\* A plausible slip: a weight raised without lowering another.
reconnaissance_sum_heavy(s) ==
    W(s.avg_in_bytes < 500 /\ s.avg_out_bytes < 500, 40)
    + W(Lt(s.avg_duration_ms, 1000), 20)
    + W(s.avg_pkts_per_sec > 10, 20)
    + W(PortShare(s, 0) > 50, 30)

reconnaissance_sum(s) ==
    W(s.avg_in_bytes < 500 /\ s.avg_out_bytes < 500, 30)
    + W(Lt(s.avg_duration_ms, 1000), 20)
    + W(s.avg_pkts_per_sec > 10, 20)
    + W(PortShare(s, 0) > 50, 30)

exfiltration_sum(s) ==
    W(s.avg_out_bytes > 10000, 30)
    + W(s.bytes_ratio < 10, 30)
    + W(Gt(s.avg_duration_ms, 10000), 20)
    + W(PortShare(s, 2) > 50, 20)

c2_sum(s) ==
    W(Gt(s.avg_duration_ms, 30000), 30)
    + W(s.avg_pkts_per_sec < 2, 20)
    + W(50 < s.bytes_ratio /\ s.bytes_ratio < 200, 10)
    + W(PortShare(s, 2) > 50, 20)
    + W(s.protocol_dist.tcp > 80, 20)

lateral_movement_sum(s) ==
    W(1000 < s.avg_in_bytes /\ s.avg_in_bytes < 100000, 20)
    + W(PortShare(s, 0) > 20 /\ PortShare(s, 1) > 20, 30)
    + W(Gt(s.avg_duration_ms, 1000) /\ Lt(s.avg_duration_ms, 30000), 20)
    + W(s.protocol_dist.tcp > 70, 30)

benign_sum(s) ==
    W(50 < s.bytes_ratio /\ s.bytes_ratio < 200, 30)
    + W(s.protocol_dist.tcp < 90 /\ s.protocol_dist.udp > 10, 20)
    + W(s.flow_count > 1000, 20)
    + W(PortShare(s, 0) > 20 /\ PortShare(s, 1) > 20, 30)

\* A plausible slip: the duration check of Credential Access left out.
credential_access_sum_noDuration(s) ==
    W(s.avg_in_bytes < 1000 /\ s.avg_out_bytes < 1000, 30)
    + W(PortShare(s, 0) > 60, 30)
    + W(s.protocol_dist.tcp > 90, 20)

credential_access_sum(s) ==
    W(s.avg_in_bytes < 1000 /\ s.avg_out_bytes < 1000, 30)
    + W(PortShare(s, 0) > 60, 30)
    + W(Lt(s.avg_duration_ms, 5000), 20)
    + W(s.protocol_dist.tcp > 90, 20)

\* A plausible slip: a tactic spelt as in prose.
Profiles_hyphen ==
    <<[tactic |-> "Reconnaissance", score_fn |-> "reconnaissance"],
      [tactic |-> "Discovery", score_fn |-> "reconnaissance"],
      [tactic |-> "Credential Access", score_fn |-> "credential_access"],
      [tactic |-> "Lateral Movement", score_fn |-> "lateral_movement"],
      [tactic |-> "Command-and-Control", score_fn |-> "c2"],
      [tactic |-> "Exfiltration", score_fn |-> "exfiltration"],
      [tactic |-> "Benign", score_fn |-> "benign"]>>

\* A plausible slip: Discovery declared before Reconnaissance.
Profiles_discoveryFirst ==
    <<[tactic |-> "Discovery", score_fn |-> "reconnaissance"],
      [tactic |-> "Reconnaissance", score_fn |-> "reconnaissance"],
      [tactic |-> "Credential Access", score_fn |-> "credential_access"],
      [tactic |-> "Lateral Movement", score_fn |-> "lateral_movement"],
      [tactic |-> "Command and Control", score_fn |-> "c2"],
      [tactic |-> "Exfiltration", score_fn |-> "exfiltration"],
      [tactic |-> "Benign", score_fn |-> "benign"]>>

\* config.MITRE_TACTICS
MITRE_TACTICS ==
    <<"Reconnaissance", "Resource Development", "Initial Access", "Execution",
      "Persistence", "Privilege Escalation", "Defense Evasion",
      "Credential Access", "Discovery", "Lateral Movement", "Collection",
      "Command and Control", "Exfiltration", "Impact">>

\* self.profiles, in declaration order: the tactic and its scoring function.
Profiles ==
    <<[tactic |-> "Reconnaissance", score_fn |-> "reconnaissance"],
      [tactic |-> "Discovery", score_fn |-> "reconnaissance"],
      [tactic |-> "Credential Access", score_fn |-> "credential_access"],
      [tactic |-> "Lateral Movement", score_fn |-> "lateral_movement"],
      [tactic |-> "Command and Control", score_fn |-> "c2"],
      [tactic |-> "Exfiltration", score_fn |-> "exfiltration"],
      [tactic |-> "Benign", score_fn |-> "benign"]>>

\* The score a scoring function sums up before it clamps.
ScoreSum(fn, s) ==
    CASE fn = "reconnaissance" -> reconnaissance_sum(s)
      [] fn = "credential_access" -> credential_access_sum(s)
      [] fn = "lateral_movement" -> lateral_movement_sum(s)
      [] fn = "c2" -> c2_sum(s)
      [] fn = "exfiltration" -> exfiltration_sum(s)
      [] fn = "benign" -> benign_sum(s)

\* profile.score_fn(signature)
ProfileScore(i, s) == clamp(ScoreSum(Profiles[i].score_fn, s))

\* A plausible slip: score >= best_score, which lets a later profile take a tie.
RECURSIVE MapLoop_ge(_, _, _, _)
MapLoop_ge(s, i, best_tactic, best_score) ==
    IF i > Len(Profiles) THEN <<best_tactic, best_score>>
    ELSE IF ProfileScore(i, s) >= best_score
    THEN MapLoop_ge(s, i + 1, Profiles[i].tactic, ProfileScore(i, s))
    ELSE MapLoop_ge(s, i + 1, best_tactic, best_score)

\* for profile in self.profiles: ... if score > best_score: ...
RECURSIVE MapLoop(_, _, _, _)
MapLoop(s, i, best_tactic, best_score) ==
    IF i > Len(Profiles) THEN <<best_tactic, best_score>>
    ELSE IF ProfileScore(i, s) > best_score
    THEN MapLoop(s, i + 1, Profiles[i].tactic, ProfileScore(i, s))
    ELSE MapLoop(s, i + 1, best_tactic, best_score)

\* MitreMapper.map
map(s) == MapLoop(s, 1, "Unknown", 0)

InitMap ==
    /\ FEIdle
    /\ SBIdle
    /\ HMMIdle
    /\ SelIdle
    /\ CLIIdle
    /\ labeled_df = <<>>
    /\ signatures = <<>>
    /\ an_pc = "idle"
    /\ sig \in Signatures
    /\ map_result = None
    /\ map_pc = "ready"

Map ==
    /\ map_pc = "ready"
    /\ map_result' = map(sig)
    /\ map_pc' = "done"
    /\ UNCHANGED <<labeled_df, signatures, an_pc, sig>>
    /\ UNCHANGED <<sbVars, hmmVars, selVars, cliVars, feVars>>

NextMap == Map

SpecMap == InitMap /\ [][NextMap]_vars

(***************************************************************************)
(* Properties of MitreMapper.map.                                          *)
(***************************************************************************)
ProfileIds == DOMAIN Profiles

BestScore == CHOOSE m \in {ProfileScore(i, sig) : i \in ProfileIds} :
                 \A i \in ProfileIds : ProfileScore(i, sig) <= m

FirstBest == CHOOSE i \in ProfileIds :
                 /\ ProfileScore(i, sig) = BestScore
                 /\ \A j \in ProfileIds : ProfileScore(j, sig) = BestScore => i <= j

AllZero == \A i \in ProfileIds : ProfileScore(i, sig) = 0

\* C18: map returns the tactic of the highest-scoring profile with that
\* score; on a tie the profile declared first wins; the result is
\* ("Unknown", 0) exactly when every profile scores 0.
C18_FirstHighestWins ==
    map_pc = "done" =>
        /\ map_result = IF AllZero THEN <<"Unknown", 0>>
                        ELSE <<Profiles[FirstBest].tactic, BestScore>>
        /\ map_result = <<"Unknown", 0>> <=> AllZero

\* Two profiles with different scoring functions tie for the highest score and
\* the one declared first is returned.
C18_Witness ==
    /\ map_pc = "done"
    /\ \E i, j \in ProfileIds :
          /\ i < j
          /\ Profiles[i].score_fn # Profiles[j].score_fn
          /\ ProfileScore(i, sig) = BestScore
          /\ ProfileScore(j, sig) = BestScore
          /\ map_result = <<Profiles[i].tactic, BestScore>>

\* C19: every profile's score and the confidence map returns lie in [0, 1]
\* (0..100 hundredths), and each profile's weights already sum to at most 1
\* before the clamp.
C19_ScoresBounded ==
    /\ \A i \in ProfileIds : sig # None =>
          /\ ScoreSum(Profiles[i].score_fn, sig) \in 0..100
          /\ ProfileScore(i, sig) \in 0..100
    /\ map_pc = "done" => map_result[2] \in 0..100

\* Every check of the Reconnaissance profile holds: its score is exactly 1.
C19_Witness ==
    /\ map_pc = "done"
    /\ reconnaissance_sum(sig) = 100
    /\ map_result = <<"Reconnaissance", 100>>

Vocabulary == {MITRE_TACTICS[i] : i \in DOMAIN MITRE_TACTICS}

ProfileTactics == {Profiles[i].tactic : i \in ProfileIds}

\* C26 as stated: the name of every profile and every name map returns is an
\* entry of MITRE_TACTICS.
C26_TacticsInVocabulary ==
    /\ ProfileTactics \subseteq Vocabulary
    /\ map_pc = "done" => map_result[1] \in Vocabulary

\* C26 as amended: the name of every profile is an entry of MITRE_TACTICS or
\* "Benign", and every name map returns is one of these or "Unknown".
C26_TacticsInVocabularyOrBenign ==
    /\ ProfileTactics \subseteq Vocabulary \cup {"Benign"}
    /\ map_pc = "done" => map_result[1] \in Vocabulary \cup {"Benign", "Unknown"}

\* map returned the tactic of the Command and Control profile.
C26_Witness ==
    /\ map_pc = "done"
    /\ map_result[1] = "Command and Control"

\* C29: map never returns "Discovery".
C29_NeverDiscovery ==
    map_pc = "done" => map_result[1] # "Discovery"

\* The Discovery profile ties with Reconnaissance for the highest score and
\* Reconnaissance is returned.
C29_Witness ==
    /\ map_pc = "done"
    /\ \E i \in ProfileIds :
          /\ Profiles[i].tactic = "Discovery"
          /\ ProfileScore(i, sig) = BestScore
    /\ BestScore > 0
    /\ map_result[1] = "Reconnaissance"

\* C30: for a signature whose avg_duration_ms is a number some profile scores
\* at least 0.2, so map returns a tactic other than "Unknown" with a
\* confidence of at least 0.2.
C30_DurationCovered ==
    (map_pc = "done" /\ sig.avg_duration_ms.kind = "num") =>
        /\ \E i \in ProfileIds : ProfileScore(i, sig) >= 20
        /\ map_result[1] # "Unknown"
        /\ map_result[2] >= 20

\* A duration of exactly 1000 ms, where only a duration check holds: the
\* confidence is exactly 0.2.
C30_Witness ==
    /\ map_pc = "done"
    /\ sig.avg_duration_ms = Num(1000)
    /\ map_result[2] = 20

(***************************************************************************)
(* StateAnalyzer.  A row of the labeled frame carries its HMM_STATE and    *)
(* its PROTOCOL number; a fraction is the pair <<count, n>>.               *)
(***************************************************************************)
PROTO_TCP == 6

PROTO_UDP == 17

PROTO_ICMP == 1

\* Values of HMM_STATE in a labeled frame.
AnStates == {0, 1, 2}

\* Values of PROTOCOL: tcp, udp, icmp and one other protocol (GRE).
Protocols == {PROTO_TCP, PROTO_UDP, PROTO_ICMP, 47}

LabeledFrames ==
    UNION {[1..n -> [HMM_STATE : AnStates, PROTOCOL : Protocols]] : n \in 0..MaxAnFlows}

\* A plausible slip: the signature computed from the whole frame.
StateGroup_all(df, state_id) == df

\* The rows of one group of flows.groupby('HMM_STATE').
StateGroup(df, state_id) ==
    LET InGroup(r) == r.HMM_STATE = state_id IN SelectSeq(df, InGroup)

\* (protocols == proto).sum()
ProtoCount(group, proto) ==
    Cardinality({i \in DOMAIN group : group[i].PROTOCOL = proto})

\* StateAnalyzer._compute_protocol_dist
compute_protocol_dist(group) ==
    LET n == Len(group) IN
    IF n = 0 THEN [tcp |-> <<0, 1>>, udp |-> <<0, 1>>, icmp |-> <<0, 1>>]
    ELSE [tcp |-> <<ProtoCount(group, PROTO_TCP), n>>,
          udp |-> <<ProtoCount(group, PROTO_UDP), n>>,
          icmp |-> <<ProtoCount(group, PROTO_ICMP), n>>]

\* StateAnalyzer._compute_signature
compute_signature(state_id, group) ==
    [state_id |-> state_id,
     protocol_dist |-> compute_protocol_dist(group),
     flow_count |-> Len(group)]

\* sorted(signatures, key=lambda s: s.state_id), for distinct state ids
SortByStateId(sigs) ==
    LET ids == AscSeq({sigs[i].state_id : i \in DOMAIN sigs})
    IN [i \in DOMAIN ids |->
           sigs[CHOOSE j \in DOMAIN sigs : sigs[j].state_id = ids[i]]]

\* StateAnalyzer.analyze: groupby yields the groups by ascending key.
analyze(df) ==
    LET keys == AscSeq({df[i].HMM_STATE : i \in DOMAIN df})
    IN SortByStateId([i \in DOMAIN keys |->
                         compute_signature(keys[i], StateGroup(df, keys[i]))])

InitAn ==
    /\ FEIdle
    /\ SBIdle
    /\ HMMIdle
    /\ SelIdle
    /\ CLIIdle
    /\ labeled_df \in LabeledFrames
    /\ signatures = <<>>
    /\ an_pc = "ready"
    /\ sig = None
    /\ map_result = None
    /\ map_pc = "idle"

Analyze ==
    /\ an_pc = "ready"
    /\ signatures' = analyze(labeled_df)
    /\ an_pc' = "done"
    /\ UNCHANGED <<labeled_df, sig, map_result, map_pc>>
    /\ UNCHANGED <<sbVars, hmmVars, selVars, cliVars, feVars>>

NextAn == Analyze

SpecAn == InitAn /\ [][NextAn]_vars

(***************************************************************************)
(* Properties of StateAnalyzer.analyze.                                    *)
(***************************************************************************)
StatesPresent == {labeled_df[i].HMM_STATE : i \in DOMAIN labeled_df}

FlowsOfState(st) == {i \in DOMAIN labeled_df : labeled_df[i].HMM_STATE = st}

RECURSIVE SumFlowCounts(_)
SumFlowCounts(i) ==
    IF i = 0 THEN 0 ELSE signatures[i].flow_count + SumFlowCounts(i - 1)

\* C20: analyze returns one signature for each HMM_STATE value present,
\* ascending by state id without repetition; each flow_count is the number of
\* flows of that state, and the flow_counts sum to the number of flows.
C20_OneSignaturePerState ==
    an_pc = "done" =>
        /\ {signatures[i].state_id : i \in DOMAIN signatures} = StatesPresent
        /\ Len(signatures) = Cardinality(StatesPresent)
        /\ \A i, j \in DOMAIN signatures :
              i < j => signatures[i].state_id < signatures[j].state_id
        /\ \A i \in DOMAIN signatures :
              signatures[i].flow_count =
                  Cardinality(FlowsOfState(signatures[i].state_id))
        /\ SumFlowCounts(Len(signatures)) = Len(labeled_df)

\* Three flows, the first of state 2, the others of state 0: two signatures,
\* state 0 with two flows before state 2 with one.
C20_Witness ==
    /\ an_pc = "done"
    /\ Len(labeled_df) = 3
    /\ labeled_df[1].HMM_STATE = 2
    /\ Len(signatures) = 2
    /\ signatures[1].state_id = 0 /\ signatures[1].flow_count = 2
    /\ signatures[2].state_id = 2 /\ signatures[2].flow_count = 1

\* C21: the fractions of the protocol distribution of every signature sum to
\* 1 (all fractions of a signature have the group's size as denominator).
C21_ProtocolDistSumsToOne ==
    an_pc = "done" =>
        \A i \in DOMAIN signatures :
            LET d == signatures[i].protocol_dist
            IN /\ d.tcp[2] = d.udp[2] /\ d.udp[2] = d.icmp[2]
               /\ d.tcp[1] + d.udp[1] + d.icmp[1] = d.tcp[2]

(***************************************************************************)
(* FlowFeatureExtractor.  A feature array is its raw rows, the columns the *)
(* scaler standardized and the parameters it used.  Start times and        *)
(* inter-arrival times are whole seconds (10^3 ms); a start time may be    *)
(* nan, as pandas reads a null of the file.                                *)
(***************************************************************************)
N_FEATURES == 12

\* The upper limit of np.clip, 1e10 ms.
IAT_CAP == 10000000

FeTimes == {Num(0), Num(IAT_CAP + 9), NaN}

\* The column FLOW_START_MILLISECONDS of the frames handed to the extractor.
FeFrames == UNION {[1..n -> FeTimes] : n \in 0..MaxFeFlows}

\* times[1:] - times[:-1] on float64: nan when either side is nan.
Sub(a, b) ==
    IF a.kind = "num" /\ b.kind = "num" THEN Num(a.v - b.v) ELSE NaN

\* np.clip(x, lo, hi): minimum(maximum(x, lo), hi), which propagates nan.
clip(x, lo, hi) ==
    IF x.kind # "num" THEN x
    ELSE Num(IF x.v < lo THEN lo ELSE IF x.v > hi THEN hi ELSE x.v)

\* _extract_features: one row per flow; iat is the value whose log1p is
\* column 5.
extract_features(f) ==
    [j \in DOMAIN f |->
        [iat |-> clip(IF j = 1 THEN Num(0) ELSE Sub(f[j], f[j - 1]), 0, IAT_CAP)]]

\* StandardScaler() before any fit, and after a fit on the rows raw.
Unfitted == [kind |-> "unfitted"]

Params(raw) == [kind |-> "fitted", fitted_on |-> raw]

Columns == 0..(N_FEATURES - 1)

\* raw_features as returned.
Raw(raw) == [raw |-> raw, scaled |-> {}, by |-> Unfitted]

\* self.scaler.transform(raw_features): every column of the array.
Standardized(raw, sc) == [raw |-> raw, scaled |-> Columns, by |-> sc]

FeReturned(op, f, normalize, v) ==
    [op |-> op, flows |-> f, normalize |-> normalize, raised |-> "", value |-> v]

FeRaised(op, f, normalize, type) ==
    [op |-> op, flows |-> f, normalize |-> normalize, raised |-> type,
     value |-> None]

\* self.scaler.fit_transform(raw): fit resets the scaler, then rejects an
\* array without rows.
scaler_fit_transform(op, f, raw, fitted) ==
    IF raw = <<>>
    THEN [scaler |-> Unfitted, is_fitted |-> fitted,
          ret |-> FeRaised(op, f, TRUE, "ValueError")]
    ELSE [scaler |-> Params(raw), is_fitted |-> TRUE,
          ret |-> FeReturned(op, f, TRUE, Standardized(raw, Params(raw)))]

fit_transform(sc, fitted, f) ==
    scaler_fit_transform("fit_transform", f, extract_features(f), fitted)

\* A plausible slip: transform fits the scaler on its input when asked to
\* normalize.
transform_refit(sc, fitted, f, normalize) ==
    IF normalize
    THEN scaler_fit_transform("transform", f, extract_features(f), fitted)
    ELSE [scaler |-> sc, is_fitted |-> fitted,
          ret |-> FeReturned("transform", f, normalize, Raw(extract_features(f)))]

transform(sc, fitted, f, normalize) ==
    LET raw == extract_features(f) IN
    [scaler |-> sc, is_fitted |-> fitted,
     ret |-> IF normalize /\ fitted
             THEN IF sc = Unfitted
                  THEN FeRaised("transform", f, normalize, "NotFittedError")
                  ELSE IF raw = <<>>
                  THEN FeRaised("transform", f, normalize, "ValueError")
                  ELSE FeReturned("transform", f, normalize, Standardized(raw, sc))
             ELSE FeReturned("transform", f, normalize, Raw(raw))]

InitFE ==
    /\ SBIdle
    /\ HMMIdle
    /\ SelIdle
    /\ CLIIdle
    /\ InterpIdle
    /\ scaler = Unfitted
    /\ is_fitted = FALSE
    /\ fe_ret = None

Called(r) ==
    /\ scaler' = r.scaler
    /\ is_fitted' = r.is_fitted
    /\ fe_ret' = r.ret
    /\ UNCHANGED <<sbVars, hmmVars, selVars, cliVars, interpVars>>

FitTransform ==
    \E f \in FeFrames : Called(fit_transform(scaler, is_fitted, f))

\* Also the call of label_flows and evaluate_model, where normalize is
\* extractor._is_fitted.
Transform ==
    \E f \in FeFrames, normalize \in BOOLEAN :
        Called(transform(scaler, is_fitted, f, normalize))

\* train_model: extractor.scaler.fit_transform(X), then _is_fitted = True,
\* on the rows of at least one session.
TrainFit ==
    \E f \in FeFrames \ {<<>>} :
        Called(scaler_fit_transform("train_model", f, extract_features(f), TRUE))

NextFE == FitTransform \/ Transform \/ TrainFit

SpecFE == InitFE /\ [][NextFE]_vars

TransformReturned ==
    fe_ret # None /\ fe_ret.op = "transform" /\ fe_ret.raised = ""

ContinuousColumns == 0..7

\* C22: transform standardizes columns 0..7 only, and only when normalize is
\* set and the normalizer is fitted; otherwise it returns the raw features.
C22_OnlyContinuousScaled ==
    TransformReturned =>
        fe_ret.value.scaled =
            IF fe_ret.normalize /\ is_fitted THEN ContinuousColumns ELSE {}

\* C23: a call of transform leaves the scaler parameters and the fitted flag
\* as they were, so a repeated call with the same arguments returns the same
\* result; only fit_transform and the fit step of train_model change them.
C23_TransformKeepsNormalizer ==
    [][/\ fe_ret'.op = "transform" =>
             /\ scaler' = scaler
             /\ is_fitted' = is_fitted
             /\ (/\ fe_ret # None
                 /\ fe_ret.op = "transform"
                 /\ fe_ret.flows = fe_ret'.flows
                 /\ fe_ret.normalize = fe_ret'.normalize) => fe_ret' = fe_ret
       /\ <<scaler', is_fitted'>> # <<scaler, is_fitted>> =>
             fe_ret'.op \in {"fit_transform", "train_model"}]_vars

\* transform normalized flows other than those the scaler was fitted on, and
\* the scaler still holds the parameters of that fit.
C23_Witness ==
    /\ TransformReturned
    /\ is_fitted
    /\ fe_ret.value.scaled # {}
    /\ fe_ret.value.by = scaler
    /\ scaler.fitted_on # fe_ret.value.raw

\* C28: the inter-arrival time before the log is 0 for the first flow and
\* lies in [0, 10^10 ms] for every flow, whatever the start times of the
\* input are.
C28_IatWithinClamp ==
    (fe_ret # None /\ fe_ret.raised = "") =>
        \A j \in DOMAIN fe_ret.value.raw :
            LET x == fe_ret.value.raw[j].iat IN
            /\ x.kind = "num"
            /\ x.v >= 0
            /\ x.v <= IAT_CAP
            /\ j = 1 => x.v = 0

=============================================================================
